---- MODULE Spec2Model ----
(***************************************************************************)
(* Model of vergen's `build` feature (src/src/feature/build.rs): the       *)
(* Build configuration, has_enabled, and configure_build with the helpers  *)
(* add_config_entries, add_date_entry, add_time_entry, add_timestamp_entry.*)
(*                                                                         *)
(* Strings are sequences of one-character strings.  An Option<T> is a      *)
(* sequence of length at most one: <<>> is None, <<v>> is Some(v).         *)
(***************************************************************************)
EXTENDS Integers, Sequences, FiniteSets, TLC

VARIABLES
    build,          \* Instructions.build : the Build configuration
    cfg_map,        \* Config.cfg_map : VergenKey -> String, the output map
    pc,             \* position of the driver / configure_build
    todo,           \* calls of the matched arm of add_config_entries still to run
    now,            \* Option<OffsetDateTime> : the snapshot handed to add_config_entries
    clock,          \* the system wall clock, UTC: [days since 1970-01-01, secs of the day, nanos]
    ticks,          \* how often the clock advanced (bounded)
    local_offset,   \* Option<seconds> : the system's local UTC offset, None if unresolvable
    pkg_version,    \* Option<String> : environment variable CARGO_PKG_VERSION
    samples,        \* history: number of clock reads (now_utc / now_local, panicking or not)
    local_attempts, \* history: number of calls of OffsetDateTime::now_local
    inserted,       \* history: the (key, producer) pairs written into cfg_map, in order
    mutated         \* history: TRUE once the caller used a *_mut accessor

vars == <<build, cfg_map, pc, todo, now, clock, ticks, local_offset, pkg_version,
          samples, local_attempts, inserted, mutated>>

\* ------------------------------------------------------------------------
\* Bounds and input sets

MaxTicks == 2

\* 2021-02-12T01:54:15.13475Z, 2021-12-31T23:59:59Z, 2000-02-28T23:59:59Z:
\* clocks of a build host, well inside the years -9999..9999 that an
\* OffsetDateTime can hold
InitialClocks ==
    { [days |-> 18670, secs |-> 6855,  nanos |-> 134750000],
      [days |-> 18992, secs |-> 86399, nanos |-> 0],
      [days |-> 11015, secs |-> 86399, nanos |-> 0] }

\* unresolvable, UTC, -05:00, +05:30, +24:00, +00:00:30 (in seconds)
LocalOffsets == { <<>>, <<0>>, <<0 - 18000>>, <<19800>>, <<86400>>, <<30>> }

Version420 == <<"4", ".", "2", ".", "0">>

PkgVersions == { <<>>, <<Version420>> }

\* ------------------------------------------------------------------------
\* Types of the configuration

TimeZones == {"Utc", "Local"}

TimestampKinds == {"DateOnly", "TimeOnly", "DateAndTime", "Timestamp", "All"}

VergenKeys == {"BuildDate", "BuildTime", "BuildTimestamp", "BuildSemver"}

Build ==
    [enabled : BOOLEAN, timestamp : BOOLEAN, timezone : TimeZones,
     kind : TimestampKinds, semver : BOOLEAN]

\* A plausible slip: the default kind is All instead of Timestamp.
DefaultKindAll ==
    [enabled |-> TRUE, timestamp |-> TRUE, timezone |-> "Utc",
     kind |-> "All", semver |-> TRUE]

Default ==
    [enabled |-> TRUE, timestamp |-> TRUE, timezone |-> "Utc",
     kind |-> "Timestamp", semver |-> TRUE]

\* A plausible slip: || where && was meant.
has_enabled_or(b) == b.enabled \/ (b.timestamp \/ b.semver)

\* A plausible slip: the semver flag is forgotten.
has_enabled_no_semver(b) == b.enabled /\ b.timestamp

has_enabled(b) == b.enabled /\ (b.timestamp \/ b.semver)

\* ------------------------------------------------------------------------
\* The clock and the civil calendar (time::OffsetDateTime)

\* proleptic Gregorian date of a day number (days since 1970-01-01)
CivilFromDays(days) ==
    LET z   == days + 719468
        era == z \div 146097
        doe == z - era * 146097
        yoe == (doe - doe \div 1460 + doe \div 36524 - doe \div 146096) \div 365
        doy == doe - (365 * yoe + yoe \div 4 - yoe \div 100)
        mp  == (5 * doy + 2) \div 153
        d   == doy - (153 * mp + 2) \div 5 + 1
        m   == IF mp < 10 THEN mp + 3 ELSE mp - 9
        y   == yoe + era * 400 + (IF m <= 2 THEN 1 ELSE 0)
    IN  [year |-> y, month |-> m, day |-> d]

\* the day and the second of the day on the snapshot's own (offset) civil
\* time line
DaysOf(t) == t.days + (t.secs + t.offset) \div (24 * 60 * 60)

SecOfDay(t) == (t.secs + t.offset) % (24 * 60 * 60)

\* an OffsetDateTime holds the years -9999..9999 only
DateInRange(t) ==
    /\ CivilFromDays(DaysOf(t)).year >= 0 - 9999
    /\ CivilFromDays(DaysOf(t)).year <= 9999

\* the clock c seen at the UTC offset off (in seconds)
AtOffset(c, off) == [days |-> c.days, secs |-> c.secs, nanos |-> c.nanos, offset |-> off]

\* OffsetDateTime::now_utc(): the snapshot, or None for its panic when the
\* system clock is outside what an OffsetDateTime can hold
now_utc(c) ==
    IF DateInRange(AtOffset(c, 0)) THEN <<AtOffset(c, 0)>> ELSE <<>>

\* OffsetDateTime::now_local().expect(..): the snapshot, or None for the
\* panic: of the now_utc() inside it, of expect when the local offset cannot
\* be determined, or of the conversion when the local date is out of range
now_local(c, off) ==
    IF now_utc(c) = <<>> THEN <<>>
    ELSE IF off = <<>> THEN <<>>
    ELSE IF ~DateInRange(AtOffset(c, off[1])) THEN <<>>
    ELSE <<AtOffset(c, off[1])>>

Year(t)   == CivilFromDays(DaysOf(t)).year
Month(t)  == CivilFromDays(DaysOf(t)).month
Day(t)    == CivilFromDays(DaysOf(t)).day
Hour(t)   == SecOfDay(t) \div 3600
Minute(t) == (SecOfDay(t) % 3600) \div 60
Second(t) == SecOfDay(t) % 60

\* ------------------------------------------------------------------------
\* Formatting (time::OffsetDateTime::format)

DigitChars == <<"0", "1", "2", "3", "4", "5", "6", "7", "8", "9">>

Digit(d) == DigitChars[d + 1]

RECURSIVE Decimal(_)
Decimal(n) == IF n < 10 THEN <<Digit(n)>> ELSE Decimal(n \div 10) \o <<Digit(n % 10)>>

RECURSIVE ZeroFill(_, _)
ZeroFill(s, width) == IF Len(s) >= width THEN s ELSE ZeroFill(<<"0">> \o s, width)

\* a number zero-padded to at least `width` digits
PadZero(n, width) == ZeroFill(Decimal(n), width)

\* "[year]": four digits at least, with a sign for a negative year
YearText(t) ==
    IF Year(t) < 0 THEN <<"-">> \o PadZero(0 - Year(t), 4) ELSE PadZero(Year(t), 4)

\* "[year]-[month]-[day]"
format_date(t) ==
    << YearText(t) \o <<"-">> \o PadZero(Month(t), 2) \o <<"-">> \o PadZero(Day(t), 2) >>

\* A plausible slip: the separators of the documented example 11:22:34.
format_time_colons(t) ==
    << PadZero(Hour(t), 2) \o <<":">> \o PadZero(Minute(t), 2) \o <<":">> \o PadZero(Second(t), 2) >>

\* "[hour]-[minute]-[second]"
format_time(t) ==
    << PadZero(Hour(t), 2) \o <<"-">> \o PadZero(Minute(t), 2) \o <<"-">> \o PadZero(Second(t), 2) >>

RECURSIVE TrimZeros(_)
TrimZeros(s) ==
    IF s # <<>> /\ s[Len(s)] = "0" THEN TrimZeros(SubSeq(s, 1, Len(s) - 1)) ELSE s

\* the fractional second: nothing when zero, else "." and the digits without trailing zeros
Subsecond(t) ==
    IF t.nanos = 0 THEN <<>> ELSE <<".">> \o TrimZeros(PadZero(t.nanos, 9))

Abs(n) == IF n < 0 THEN 0 - n ELSE n

\* the components of the snapshot's UTC offset, without the sign
OffsetHours(t) == Abs(t.offset) \div 3600

OffsetMinutes(t) == (Abs(t.offset) % 3600) \div 60

OffsetSeconds(t) == Abs(t.offset) % 60

\* "Z" for UTC, else the signed hours and minutes
OffsetText(t) ==
    IF t.offset = 0 THEN <<"Z">>
    ELSE <<IF t.offset < 0 THEN "-" ELSE "+">>
         \o PadZero(OffsetHours(t), 2) \o <<":">> \o PadZero(OffsetMinutes(t), 2)

\* well_known::Rfc3339; fails (None) for a year outside 0..9999, for an
\* offset beyond 23 hours and for an offset with seconds
format_rfc3339(t) ==
    IF Year(t) < 0 \/ Year(t) > 9999 THEN <<>>
    ELSE IF OffsetHours(t) > 23 THEN <<>>
    ELSE IF OffsetSeconds(t) # 0 THEN <<>>
    ELSE << PadZero(Year(t), 4) \o <<"-">> \o PadZero(Month(t), 2) \o <<"-">> \o PadZero(Day(t), 2)
            \o <<"T">>
            \o PadZero(Hour(t), 2) \o <<":">> \o PadZero(Minute(t), 2) \o <<":">> \o PadZero(Second(t), 2)
            \o Subsecond(t) \o OffsetText(t) >>

\* ------------------------------------------------------------------------
\* The output map

EmptyMap == [k \in {} |-> <<>>]

\* A plausible slip: the key is entered also for None, with an empty text.
add_entry_keeps_none(map, key, value) ==
    [k \in (DOMAIN map) \cup {key} |->
        IF k = key THEN (IF value = <<>> THEN <<>> ELSE value[1]) ELSE map[k]]

\* insert the pair when a value was produced, leave the map alone for None
add_entry(map, key, value) ==
    IF value = <<>> THEN map
    ELSE [k \in (DOMAIN map) \cup {key} |-> IF k = key THEN value[1] ELSE map[k]]

\* each routine's call of add_entry: the key it names and the value it formats
add_date_entry(t) == [key |-> "BuildDate", value |-> format_date(t)]

add_time_entry(t) == [key |-> "BuildTime", value |-> format_time(t)]

add_timestamp_entry(t) == [key |-> "BuildTimestamp", value |-> format_rfc3339(t)]

\* env::var("CARGO_PKG_VERSION").ok() handed to add_entry under BuildSemver
add_semver_entry(version) == [key |-> "BuildSemver", value |-> version]

\* A plausible slip: the TimeOnly arm calls the date routine.
add_config_entries_time_as_date(kind) ==
    CASE kind = "DateOnly"    -> <<"add_date_entry">>
      [] kind = "TimeOnly"    -> <<"add_date_entry">>
      [] kind = "DateAndTime" -> <<"add_date_entry", "add_time_entry">>
      [] kind = "Timestamp"   -> <<"add_timestamp_entry">>
      [] kind = "All"         -> <<"add_date_entry", "add_time_entry", "add_timestamp_entry">>

\* A plausible slip: the DateAndTime arm calls the date routine twice.
add_config_entries_date_twice(kind) ==
    CASE kind = "DateOnly"    -> <<"add_date_entry">>
      [] kind = "TimeOnly"    -> <<"add_time_entry">>
      [] kind = "DateAndTime" -> <<"add_date_entry", "add_date_entry">>
      [] kind = "Timestamp"   -> <<"add_timestamp_entry">>
      [] kind = "All"         -> <<"add_date_entry", "add_time_entry", "add_timestamp_entry">>

\* the calls made by the arm of add_config_entries that matches `kind`, in order
add_config_entries(kind) ==
    CASE kind = "DateOnly"    -> <<"add_date_entry">>
      [] kind = "TimeOnly"    -> <<"add_time_entry">>
      [] kind = "DateAndTime" -> <<"add_date_entry", "add_time_entry">>
      [] kind = "Timestamp"   -> <<"add_timestamp_entry">>
      [] kind = "All"         -> <<"add_date_entry", "add_time_entry", "add_timestamp_entry">>

\* ------------------------------------------------------------------------
\* Initial state: a configuration constructed with defaults, an empty output
\* map, and the environment of the build process

Init ==
    /\ build = Default
    /\ cfg_map = EmptyMap
    /\ pc = "config"
    /\ todo = <<>>
    /\ now = <<>>
    /\ clock \in InitialClocks
    /\ ticks = 0
    /\ local_offset \in LocalOffsets
    /\ pkg_version \in PkgVersions
    /\ samples = 0
    /\ local_attempts = 0
    /\ inserted = <<>>
    /\ mutated = FALSE

\* ------------------------------------------------------------------------
\* The caller overrides fields before the generator runs (the *_mut accessors)

Override(b) ==
    /\ pc = "config"
    /\ build' = b
    /\ mutated' = TRUE
    /\ UNCHANGED <<cfg_map, pc, todo, now, clock, ticks, local_offset, pkg_version,
                   samples, local_attempts, inserted>>

SetEnabled == \E v \in BOOLEAN : Override([build EXCEPT !.enabled = v])

SetTimestamp == \E v \in BOOLEAN : Override([build EXCEPT !.timestamp = v])

SetTimezone == \E v \in TimeZones : Override([build EXCEPT !.timezone = v])

SetKind == \E v \in TimestampKinds : Override([build EXCEPT !.kind = v])

SetSemver == \E v \in BOOLEAN : Override([build EXCEPT !.semver = v])

\* The wall clock advances by one second, at any moment, also during the run
Tick ==
    /\ ticks < MaxTicks
    /\ ticks' = ticks + 1
    /\ clock' = IF clock.secs + 1 = 24 * 60 * 60
                THEN [clock EXCEPT !.days = @ + 1, !.secs = 0]
                ELSE [clock EXCEPT !.secs = @ + 1]
    /\ UNCHANGED <<build, cfg_map, pc, todo, now, local_offset, pkg_version,
                   samples, local_attempts, inserted, mutated>>

\* ------------------------------------------------------------------------
\* configure_build

\* A plausible slip: the timestamp flag is not consulted before the clock is read.
ConfigureBuildIgnoreTimestampFlag ==
    /\ pc = "config"
    /\ pc' = IF ~has_enabled(build) THEN "done" ELSE "capture"
    /\ UNCHANGED <<build, cfg_map, todo, now, clock, ticks, local_offset, pkg_version,
                   samples, local_attempts, inserted, mutated>>

\* entry of configure_build: the has_enabled gate and the timestamp flag
ConfigureBuild ==
    /\ pc = "config"
    /\ pc' = IF ~has_enabled(build) THEN "done"
             ELSE IF build.timestamp THEN "capture"
             ELSE "semver"
    /\ UNCHANGED <<build, cfg_map, todo, now, clock, ticks, local_offset, pkg_version,
                   samples, local_attempts, inserted, mutated>>

\* add_config_entries is entered with the snapshot t: its matched arm is queued
EnterEntries(t) ==
    /\ now' = <<t>>
    /\ todo' = add_config_entries(build.kind)
    /\ pc' = IF add_config_entries(build.kind) = <<>> THEN "semver" ELSE "entries"

\* TimeZone::Utc arm: OffsetDateTime::now_utc() returns the snapshot, or
\* panics for a clock out of range
CaptureUtc ==
    /\ pc = "capture"
    /\ build.timezone = "Utc"
    /\ samples' = samples + 1
    /\ IF now_utc(clock) = <<>>
       THEN pc' = "aborted" /\ UNCHANGED <<now, todo>>
       ELSE EnterEntries(now_utc(clock)[1])
    /\ UNCHANGED <<build, cfg_map, clock, ticks, local_offset, pkg_version,
                   local_attempts, inserted, mutated>>

\* A plausible slip: an unresolvable local offset skips the date/time entries.
CaptureLocalSkip ==
    /\ pc = "capture"
    /\ build.timezone = "Local"
    /\ samples' = samples + 1
    /\ local_attempts' = local_attempts + 1
    /\ IF now_local(clock, local_offset) = <<>>
       THEN pc' = "semver" /\ UNCHANGED <<now, todo>>
       ELSE EnterEntries(now_local(clock, local_offset)[1])
    /\ UNCHANGED <<build, cfg_map, clock, ticks, local_offset, pkg_version,
                   inserted, mutated>>

\* TimeZone::Local arm: OffsetDateTime::now_local().expect(..) panics on failure
CaptureLocal ==
    /\ pc = "capture"
    /\ build.timezone = "Local"
    /\ samples' = samples + 1
    /\ local_attempts' = local_attempts + 1
    /\ IF now_local(clock, local_offset) = <<>>
       THEN pc' = "aborted" /\ UNCHANGED <<now, todo>>
       ELSE EnterEntries(now_local(clock, local_offset)[1])
    /\ UNCHANGED <<build, cfg_map, clock, ticks, local_offset, pkg_version,
                   inserted, mutated>>

\* the call add_entry(config.cfg_map_mut(), e.key, e.value) made by `producer`
Insert(e, producer) ==
    /\ cfg_map' = add_entry(cfg_map, e.key, e.value)
    /\ inserted' = IF e.value = <<>> THEN inserted
                   ELSE Append(inserted, [key |-> e.key, producer |-> producer])

\* the next call of the matched arm of add_config_entries is `routine`
NextCall(routine) ==
    /\ pc = "entries"
    /\ todo # <<>>
    /\ Head(todo) = routine
    /\ todo' = Tail(todo)
    /\ pc' = IF Tail(todo) = <<>> THEN "semver" ELSE "entries"

AddDateEntry ==
    /\ NextCall("add_date_entry")
    /\ Insert(add_date_entry(now[1]), "add_date_entry")
    /\ UNCHANGED <<build, now, clock, ticks, local_offset, pkg_version,
                   samples, local_attempts, mutated>>

\* A plausible slip: the time entry reads the clock again instead of using the snapshot.
AddTimeEntryResample ==
    /\ NextCall("add_time_entry")
    /\ samples' = samples + 1
    /\ Insert(add_time_entry([now[1] EXCEPT !.days = clock.days, !.secs = clock.secs,
                                        !.nanos = clock.nanos]),
              "add_time_entry")
    /\ UNCHANGED <<build, now, clock, ticks, local_offset, pkg_version,
                   local_attempts, mutated>>

AddTimeEntry ==
    /\ NextCall("add_time_entry")
    /\ Insert(add_time_entry(now[1]), "add_time_entry")
    /\ UNCHANGED <<build, now, clock, ticks, local_offset, pkg_version,
                   samples, local_attempts, mutated>>

AddTimestampEntry ==
    /\ NextCall("add_timestamp_entry")
    /\ Insert(add_timestamp_entry(now[1]), "add_timestamp_entry")
    /\ UNCHANGED <<build, now, clock, ticks, local_offset, pkg_version,
                   samples, local_attempts, mutated>>

\* the semver block, then configure_build returns
SemverStep ==
    /\ pc = "semver"
    /\ IF build.semver
       THEN Insert(add_semver_entry(pkg_version), "configure_build")
       ELSE UNCHANGED <<cfg_map, inserted>>
    /\ pc' = "done"
    /\ UNCHANGED <<build, todo, now, clock, ticks, local_offset, pkg_version,
                   samples, local_attempts, mutated>>

\* the steps of one run of the generator
Generate ==
    \/ ConfigureBuild
    \/ CaptureUtc
    \/ CaptureLocal
    \/ AddDateEntry
    \/ AddTimeEntry
    \/ AddTimestampEntry
    \/ SemverStep

Next ==
    \/ SetEnabled
    \/ SetTimestamp
    \/ SetTimezone
    \/ SetKind
    \/ SetSemver
    \/ Tick
    \/ ConfigureBuild
    \/ CaptureUtc
    \/ CaptureLocal
    \/ AddDateEntry
    \/ AddTimeEntry
    \/ AddTimestampEntry
    \/ SemverStep

Spec == Init /\ [][Next]_vars

\* the start of the liveness check: as Init, from the one instant with a
\* fractional second (the clock still advances by Tick) and with the local
\* offset unresolvable, UTC or +24:00
FairInit ==
    /\ Init
    /\ clock.nanos # 0
    /\ local_offset \in {<<>>, <<0>>, <<86400>>}

\* the generator is synchronous: once invoked, it keeps running
FairSpec == FairInit /\ [][Next]_vars /\ WF_vars(Generate)

TypeOK ==
    /\ build \in Build
    /\ DOMAIN cfg_map \subseteq VergenKeys
    /\ pc \in {"config", "capture", "entries", "semver", "done", "aborted"}
    /\ Len(now) <= 1
    /\ ticks \in 0..MaxTicks
    /\ local_offset \in LocalOffsets
    /\ pkg_version \in PkgVersions
    /\ mutated \in BOOLEAN

\* ------------------------------------------------------------------------
\* Vocabulary of the properties

DateTimeKeys == {"BuildDate", "BuildTime", "BuildTimestamp"}

\* the date/time keys present in the output map
EmittedDateTimeKeys == (DOMAIN cfg_map) \cap DateTimeKeys

\* the granularity table of the specification, row by row
TableRow(kind) ==
    CASE kind = "DateOnly"    -> {"BuildDate"}
      [] kind = "TimeOnly"    -> {"BuildTime"}
      [] kind = "DateAndTime" -> {"BuildDate", "BuildTime"}
      [] kind = "Timestamp"   -> {"BuildTimestamp"}
      [] kind = "All"         -> {"BuildDate", "BuildTime", "BuildTimestamp"}

\* the one producer of each key
ProducerOf(key) ==
    CASE key = "BuildDate"      -> "add_date_entry"
      [] key = "BuildTime"      -> "add_time_entry"
      [] key = "BuildTimestamp" -> "add_timestamp_entry"
      [] key = "BuildSemver"    -> "configure_build"

\* local time was requested by an enabled configuration and cannot be resolved
LocalTimeFailure ==
    /\ build.enabled
    /\ build.timestamp
    /\ build.timezone = "Local"
    /\ local_offset = <<>>

IsDigit(c) == \E d \in 0..9 : c = Digit(d)

ValueOfDigit(c) == CHOOSE d \in 0..9 : c = Digit(d)

\* the number written by a string of digits
RECURSIVE NumberOf(_)
NumberOf(s) ==
    IF s = <<>> THEN 0
    ELSE 10 * NumberOf(SubSeq(s, 1, Len(s) - 1)) + ValueOfDigit(s[Len(s)])

\* s is DDDD-DD-DD
IsDateShape(s) ==
    /\ Len(s) = 10
    /\ \A i \in {1, 2, 3, 4, 6, 7, 9, 10} : IsDigit(s[i])
    /\ s[5] = "-"
    /\ s[8] = "-"

\* s is DD-DD-DD
IsTimeShape(s) ==
    /\ Len(s) = 8
    /\ \A i \in {1, 2, 4, 5, 7, 8} : IsDigit(s[i])
    /\ s[3] = "-"
    /\ s[6] = "-"
    /\ \A i \in 1..Len(s) : s[i] # ":"

\* s is DDDD-DD-DDTDD:DD:DD, an optional fraction, then Z
IsRfc3339Utc(s) ==
    /\ Len(s) >= 20
    /\ \A i \in {1, 2, 3, 4, 6, 7, 9, 10, 12, 13, 15, 16, 18, 19} : IsDigit(s[i])
    /\ s[5] = "-"
    /\ s[8] = "-"
    /\ s[11] = "T"
    /\ s[14] = ":"
    /\ s[17] = ":"
    /\ s[Len(s)] = "Z"
    /\ Len(s) > 20 => /\ s[20] = "."
                      /\ Len(s) > 21
                      /\ \A i \in 21..(Len(s) - 1) : IsDigit(s[i])

\* the snapshot's offset has seconds or lies beyond 23 hours: such a snapshot
\* has no RFC 3339 text
UnformattableOffset(t) ==
    \/ t.offset % 60 # 0
    \/ t.offset >= 24 * 3600
    \/ t.offset <= 0 - 24 * 3600

\* the date/time text that the snapshot determines for a key (an Option),
\* whatever the version string is
ExpectedDateTimeEntry(key, t) ==
    CASE key = "BuildDate"      -> format_date(t)
      [] key = "BuildTime"      -> format_time(t)
      [] key = "BuildTimestamp" -> format_rfc3339(t)

\* ------------------------------------------------------------------------
\* C1: with enabled=false, or with timestamp and semver both false,
\* has_enabled is false, the generator inserts nothing and the output map is
\* empty after generation.
C1_DisabledEmitsNothing ==
    (~build.enabled \/ (~build.timestamp /\ ~build.semver)) =>
        /\ ~has_enabled(build)
        /\ pc \in {"config", "done"}
        /\ DOMAIN cfg_map = {}
        /\ inserted = <<>>
        /\ samples = 0

C1_Witness ==
    /\ pc = "done"
    /\ ~build.enabled
    /\ build.timestamp
    /\ build.semver
    /\ pkg_version # <<>>

\* C2 as stated: with timestamp=false and semver=true, whatever the master
\* switch, has_enabled is true and the map holds exactly the BuildSemver entry.
C2_AnyMasterSwitch ==
    (pc = "done" /\ ~build.timestamp /\ build.semver /\ pkg_version # <<>>) =>
        /\ has_enabled(build)
        /\ DOMAIN cfg_map = {"BuildSemver"}

\* C2 (amended): with enabled=true, timestamp=false and semver=true,
\* has_enabled is true and, given a version string, the map after generation
\* holds exactly the BuildSemver entry, whose value is that string.
C2_VersionOnly ==
    (build.enabled /\ ~build.timestamp /\ build.semver) =>
        /\ has_enabled(build)
        /\ pc \in {"config", "semver", "done"}
        /\ (pc = "done" /\ pkg_version # <<>>) =>
               /\ DOMAIN cfg_map = {"BuildSemver"}
               /\ cfg_map["BuildSemver"] = pkg_version[1]

C2_Witness ==
    /\ pc = "done"
    /\ build.enabled
    /\ ~build.timestamp
    /\ build.semver
    /\ build.timezone = "Local"
    /\ pkg_version # <<>>
    /\ DOMAIN cfg_map = {"BuildSemver"}

\* C3 as stated: once the snapshot was captured and add_config_entries has
\* returned, the date/time keys in the map are exactly the row of the
\* granularity table, for every granularity and for both timezones.
C3_TableRowExact ==
    (has_enabled(build) /\ build.timestamp /\ pc \in {"semver", "done"}) =>
        /\ now # <<>>
        /\ EmittedDateTimeKeys = TableRow(build.kind)

\* C3 (amended): the date/time keys in the map are the row of the
\* granularity table, for every granularity and both timezones, less
\* BuildTimestamp when the Local snapshot's offset has seconds or lies
\* beyond 23 hours; under Utc the row is always complete.
C3_GranularityTable ==
    (has_enabled(build) /\ build.timestamp /\ pc \in {"semver", "done"}) =>
        /\ now # <<>>
        /\ build.timezone = "Utc" => ~UnformattableOffset(now[1])
        /\ EmittedDateTimeKeys =
               TableRow(build.kind) \
                   (IF UnformattableOffset(now[1]) THEN {"BuildTimestamp"} ELSE {})

C3_Witness ==
    /\ pc = "done"
    /\ build.timezone = "Local"
    /\ build.kind = "All"
    /\ now # <<>>
    /\ now[1].offset = 86400
    /\ EmittedDateTimeKeys = {"BuildDate", "BuildTime"}

\* C4: when local time is requested and the local offset is unresolvable,
\* the run aborts before any insertion: the map is empty at the abort, also
\* when a version string is available, and the run never completes normally.
C4_LocalFailureAborts ==
    /\ pc = "aborted" => (DOMAIN cfg_map = {} /\ inserted = <<>>)
    /\ (has_enabled(build) /\ build.timestamp /\ build.timezone = "Local"
            /\ local_offset = <<>>) =>
           /\ pc \in {"config", "capture", "aborted"}
           /\ DOMAIN cfg_map = {}

C4_Witness ==
    /\ pc = "aborted"
    /\ build.semver
    /\ pkg_version # <<>>
    /\ local_attempts = 1

\* C5: a configuration constructed with defaults is (true, true, Utc,
\* Timestamp, true); its run never aborts and, with version "4.2.0", ends
\* with exactly BuildTimestamp (the RFC 3339 text of the UTC snapshot) and
\* BuildSemver = "4.2.0".
C5_DefaultRun ==
    ~mutated =>
        /\ build = [enabled |-> TRUE, timestamp |-> TRUE, timezone |-> "Utc",
                    kind |-> "Timestamp", semver |-> TRUE]
        /\ pc # "aborted"
        /\ (pc = "done" /\ pkg_version = << <<"4", ".", "2", ".", "0">> >>) =>
               /\ DOMAIN cfg_map = {"BuildTimestamp", "BuildSemver"}
               /\ cfg_map["BuildSemver"] = <<"4", ".", "2", ".", "0">>
               /\ now # <<>>
               /\ now[1].offset = 0
               /\ cfg_map["BuildTimestamp"] = format_rfc3339(now[1])[1]
               /\ IsRfc3339Utc(cfg_map["BuildTimestamp"])

C5_Witness ==
    /\ ~mutated
    /\ pc = "done"
    /\ pkg_version = <<Version420>>
    /\ "BuildTimestamp" \in DOMAIN cfg_map

\* the date/time entries of a completed run are those the configuration and
\* the snapshot determine, with or without a version string
DateTimeEntriesUnaffected ==
    (has_enabled(build) /\ build.semver /\ pc = "done") =>
        /\ EmittedDateTimeKeys =
               { k \in (IF build.timestamp THEN TableRow(build.kind) ELSE {}) :
                     ExpectedDateTimeEntry(k, now[1]) # <<>> }
        /\ \A k \in EmittedDateTimeKeys : cfg_map[k] = ExpectedDateTimeEntry(k, now[1])[1]

\* C6 as stated: with has_enabled and semver but no version string, the run
\* never aborts, BuildSemver is never in the map, and the date/time entries
\* are the same as with a version string.
C6_NeverAborts ==
    /\ (has_enabled(build) /\ build.semver /\ pkg_version = <<>>) =>
           /\ "BuildSemver" \notin DOMAIN cfg_map
           /\ pc # "aborted"
    /\ DateTimeEntriesUnaffected

\* C6 (amended): with has_enabled and semver but no version string,
\* BuildSemver is never in the map and the run does not abort, except for
\* the local-time failure (enabled, timestamp, Local, unresolvable offset),
\* which aborts it as it does with a version string; the date/time entries
\* of a completed run are the same as with a version string.
C6_MissingVersionOmitted ==
    /\ (has_enabled(build) /\ build.semver /\ pkg_version = <<>>) =>
           /\ "BuildSemver" \notin DOMAIN cfg_map
           /\ ~LocalTimeFailure => pc # "aborted"
    /\ DateTimeEntriesUnaffected

C6_Witness ==
    /\ pc = "done"
    /\ has_enabled(build)
    /\ build.semver
    /\ pkg_version = <<>>
    /\ build.timestamp
    /\ build.kind = "All"
    /\ DOMAIN cfg_map = DateTimeKeys

\* the clock text hh:mm:ss inside an RFC 3339 value, with hyphens for colons
ClockTimeOf(ts) ==
    SubSeq(ts, 12, 13) \o <<"-">> \o SubSeq(ts, 15, 16) \o <<"-">> \o SubSeq(ts, 18, 19)

\* C7 as stated: the clock is read at most once per run, and only when
\* has_enabled and timestamp hold; with kind=All, timestamp=true,
\* semver=false the map ends with exactly the three date/time keys; BuildDate
\* and BuildTime agree with the calendar date and clock time of
\* BuildTimestamp even though the clock advances during the run.
C7_AllThreeKeys ==
    /\ samples <= 1
    /\ samples > 0 => (has_enabled(build) /\ build.timestamp)
    /\ (pc = "done" /\ build.enabled /\ build.timestamp /\ build.kind = "All"
            /\ ~build.semver) => DOMAIN cfg_map = DateTimeKeys
    /\ {"BuildDate", "BuildTimestamp"} \subseteq DOMAIN cfg_map =>
           cfg_map["BuildDate"] = SubSeq(cfg_map["BuildTimestamp"], 1, 10)
    /\ {"BuildTime", "BuildTimestamp"} \subseteq DOMAIN cfg_map =>
           cfg_map["BuildTime"] = ClockTimeOf(cfg_map["BuildTimestamp"])

\* C7 (amended): as stated, except that with kind=All, timestamp=true,
\* semver=false the map ends with exactly BuildDate and BuildTime, and with
\* BuildTimestamp too unless the snapshot's offset has seconds or lies
\* beyond 23 hours.
C7_SingleSnapshot ==
    /\ samples <= 1
    /\ samples > 0 => (has_enabled(build) /\ build.timestamp)
    /\ (pc = "done" /\ build.enabled /\ build.timestamp /\ build.kind = "All"
            /\ ~build.semver) =>
           DOMAIN cfg_map = (IF UnformattableOffset(now[1])
                             THEN {"BuildDate", "BuildTime"} ELSE DateTimeKeys)
    /\ {"BuildDate", "BuildTimestamp"} \subseteq DOMAIN cfg_map =>
           cfg_map["BuildDate"] = SubSeq(cfg_map["BuildTimestamp"], 1, 10)
    /\ {"BuildTime", "BuildTimestamp"} \subseteq DOMAIN cfg_map =>
           cfg_map["BuildTime"] = ClockTimeOf(cfg_map["BuildTimestamp"])

C7_Witness ==
    /\ pc = "semver"
    /\ build.kind = "All"
    /\ ~build.semver
    /\ DOMAIN cfg_map = DateTimeKeys
    /\ samples = 1
    /\ \/ clock.days > now[1].days
       \/ clock.days = now[1].days /\ clock.secs > now[1].secs

\* what the history says about insertions: no key twice, each key from its
\* one producer, and the map holds exactly the inserted keys
WriteOnce ==
    /\ \A i, j \in 1..Len(inserted) : inserted[i].key = inserted[j].key => i = j
    /\ \A i \in 1..Len(inserted) : inserted[i].producer = ProducerOf(inserted[i].key)
    /\ DOMAIN cfg_map = {inserted[i].key : i \in 1..Len(inserted)}

\* a key that is in the map stays there with its value
NeverOverwritten ==
    \A k \in DOMAIN cfg_map : k \in DOMAIN cfg_map' /\ cfg_map'[k] = cfg_map[k]

\* C8: in one run on a fresh map each key is inserted at most once, by its
\* one producer, and a key once inserted is never overwritten.
C8_WriteOncePerRun == []WriteOnce /\ [][NeverOverwritten]_vars

C8_Witness ==
    /\ pc = "done"
    /\ Len(inserted) = 4
    /\ DOMAIN cfg_map = VergenKeys

\* C9: BuildDate is always the 10 characters YYYY-MM-DD and BuildTime the 8
\* characters HH-MM-SS (24-hour, zero-padded, hyphens, never colons), and
\* they spell the civil date and time of the snapshot.
C9_DateTimeShape ==
    /\ "BuildDate" \in DOMAIN cfg_map =>
           LET s == cfg_map["BuildDate"] IN
           /\ IsDateShape(s)
           /\ NumberOf(SubSeq(s, 1, 4)) = Year(now[1])
           /\ NumberOf(SubSeq(s, 6, 7)) = Month(now[1])
           /\ NumberOf(SubSeq(s, 9, 10)) = Day(now[1])
    /\ "BuildTime" \in DOMAIN cfg_map =>
           LET s == cfg_map["BuildTime"] IN
           /\ IsTimeShape(s)
           /\ NumberOf(SubSeq(s, 1, 2)) = Hour(now[1])
           /\ NumberOf(SubSeq(s, 1, 2)) < 24
           /\ NumberOf(SubSeq(s, 4, 5)) = Minute(now[1])
           /\ NumberOf(SubSeq(s, 7, 8)) = Second(now[1])

C9_Witness ==
    /\ {"BuildDate", "BuildTime"} \subseteq DOMAIN cfg_map
    /\ Hour(now[1]) < 10
    /\ Month(now[1]) < 10
    /\ Second(now[1]) = 0

\* a run that ended aborted exactly when the local-time failure holds, and
\* local time is resolved at most once and only when it was requested
AbortOnlyOnLocalFailure ==
    /\ pc = "aborted" => LocalTimeFailure
    /\ pc = "done" => ~LocalTimeFailure
    /\ local_attempts <= 1
    /\ local_attempts > 0 =>
           (build.enabled /\ build.timestamp /\ build.timezone = "Local")

\* C10: the generator aborts if and only if enabled, timestamp, Local and an
\* unresolvable offset come together; in every other case it never tries to
\* resolve local time and, once invoked, runs to completion.
C10_SingleFatalCondition ==
    /\ []AbortOnlyOnLocalFailure
    /\ (pc # "config") ~> (pc \in {"done", "aborted"})

C10_Witness ==
    /\ pc = "done"
    /\ build.enabled
    /\ ~build.timestamp
    /\ build.semver
    /\ build.timezone = "Local"
    /\ local_offset = <<>>
    /\ pkg_version = <<>>
    /\ local_attempts = 0

====
